---- MODULE Spec2Model ----
(***************************************************************************)
(* Model of the algorecell_types package: symbolic perturbations, chained  *)
(* reprogramming strategies, the ReprogrammingStrategies collection with   *)
(* its alias registries, and the graph / table / perturbation-set views.   *)
(*                                                                         *)
(* Python values are modelled as follows.                                  *)
(*  - a dict is the sequence of its (key, value) pairs in insertion order; *)
(*  - a set given where a dict is expected keeps its elements apart, so    *)
(*    that .items() can fail on it and len() cannot;                       *)
(*  - a call that may raise returns a record whose status field is "ok"    *)
(*    or the name of the exception class;                                  *)
(*  - None is the empty sequence, an object the one-element sequence;      *)
(*  - repr strings are modelled by the tuple of the formatted pieces.      *)
(***************************************************************************)
EXTENDS Integers, Sequences, FiniteSets, TLC

VARIABLES d, aliases, autoaliases, last, pool

vars == <<d, aliases, autoaliases, last, pool>>

\* Largest number of strategies held by the collection.
MaxStrategies == 2
\* Longest chain of strategies handed to add.
MaxChain == 2
\* Largest number of successors passed to a strategy constructor.
MaxSeq == 2

(***************************************************************************)
(* Python values                                                           *)
(***************************************************************************)

\* Lexicographic order of the component names used as dict keys.
NameOrder == <<"a", "b">>

NameRank(n) == CHOOSE i \in 1..Len(NameOrder) : NameOrder[i] = n

\* A dict literal, items in insertion order.
Dict(its) == [type |-> "dict", items |-> its, elems |-> {}]

\* A set literal.
PySet(es) == [type |-> "set", items |-> <<>>, elems |-> es]

\* len(x) of a dict or a set.
PyLen(x) == IF x.type = "dict" THEN Len(x.items) ELSE Cardinality(x.elems)

\* x.items(): only a dict has it.
items(x) ==
    IF x.type = "dict" THEN [status |-> "ok", value |-> x.items]
    ELSE [status |-> "AttributeError", value |-> <<>>]

\* sorted(...) over (key, value) pairs with pairwise distinct keys.
sorted(its) == SortSeq(its, LAMBDA x, y : NameRank(x[1]) < NameRank(y[1]))

\* The elements of a sequence.
Range(s) == {s[i] : i \in 1..Len(s)}

(***************************************************************************)
(* _SymbolicType and _Perturbation                                         *)
(***************************************************************************)

PerturbationClasses ==
    {"PermanentPerturbation", "TemporaryPerturbation",
     "ReleasePerturbation", "InstantaneousPerturbation"}

\* _Perturbation.__init__: args is the one-element tuple (partial_state,).
_Perturbation(cls, partial_state) == [cls |-> cls, args |-> <<partial_state>>]

\* self.__class__.__name__[0]
ClassInitial(cls) ==
    CASE cls = "PermanentPerturbation" -> "P"
      [] cls = "TemporaryPerturbation" -> "T"
      [] cls = "ReleasePerturbation" -> "R"
      [] cls = "InstantaneousPerturbation" -> "I"

\* repr_args as it would be without sorted(): items in insertion order.
repr_args_unsorted(self) ==
    LET its == items(self.args[1])
    IN  IF its.status # "ok" THEN [status |-> its.status, value |-> <<>>]
        ELSE [status |-> "ok", value |-> its.value]

\* _Perturbation.repr_args: the "k=v" pieces of the sorted items.
repr_args(self) ==
    LET its == items(self.args[1])
    IN  IF its.status # "ok" THEN [status |-> its.status, value |-> <<>>]
        ELSE [status |-> "ok", value |-> sorted(its.value)]

\* _SymbolicType.__repr__: "ClassName(" + repr_args() + ")".
repr(self) ==
    LET ra == repr_args(self)
    IN  IF ra.status # "ok" THEN [status |-> ra.status, value |-> <<>>]
        ELSE [status |-> "ok", value |-> <<self.cls, ra.value>>]

\* _Perturbation.get_edge_label
get_edge_label(self, compact) ==
    IF compact
    THEN [status |-> "ok",
          value |-> <<ClassInitial(self.cls), <<PyLen(self.args[1])>>>>]
    ELSE LET ra == repr_args(self)
         IN  IF ra.status # "ok" THEN [status |-> ra.status, value |-> <<>>]
             ELSE [status |-> "ok",
                   value |-> <<ClassInitial(self.cls), ra.value>>]

\* _Perturbation.__eq__: the two reprs are the same string.
PertEq(p1, p2) ==
    LET r1 == repr(p1)
        r2 == repr(p2)
    IN  IF r1.status # "ok" THEN [status |-> r1.status, value |-> FALSE]
        ELSE IF r2.status # "ok" THEN [status |-> r2.status, value |-> FALSE]
        ELSE [status |-> "ok", value |-> r1.value = r2.value]

\* _Perturbation.__hash__: the hash of the repr string.
PertHash(p) == repr(p)

(***************************************************************************)
(* Strategies                                                              *)
(***************************************************************************)

StateClasses ==
    {"FromState", "FromCondition", "FromSteadyState", "FromOneInLimitCycle"}

StrategyClasses == {"FromAny"} \cup StateClasses

\* The state field of a FromAny strategy, whose args start at the
\* perturbation.
NoState == ""

\* The constructors as they would be without the assertion on the number
\* of successors (the inherited _SymbolicType.__init__ alone).
Strategy_unchecked(cls, state, perturbation, seq) ==
    [status |-> "ok",
     value |-> [cls |-> cls, state |-> state,
                perturbation |-> perturbation, seq |-> seq]]

\* FromAny.__init__ and FromState.__init__ (inherited by the three
\* subclasses): args = (state?, perturbation, *seq), at most one successor.
Strategy(cls, state, perturbation, seq) ==
    IF ~(Len(seq) <= 1)
    THEN [status |-> "AssertionError",
          value |-> [cls |-> cls, state |-> state,
                     perturbation |-> perturbation, seq |-> <<>>]]
    ELSE [status |-> "ok",
          value |-> [cls |-> cls, state |-> state,
                     perturbation |-> perturbation, seq |-> seq]]

\* FromAny.perturbation / FromState.perturbation
perturbation(self) == self.perturbation

\* FromAny.next / FromState.next: the first successor, or None.
next(self) == IF Len(self.seq) > 0 THEN <<self.seq[1]>> ELSE <<>>

\* FromState.key
key(self) == self.state

\* FromState.replace_key: item assignment into the args tuple.
replace_key(self, k) == [status |-> "TypeError", self |-> self]

\* self.__class__.__name__[4:]
ClassTooltip(cls) ==
    CASE cls = "FromAny" -> "Any"
      [] cls = "FromState" -> "State"
      [] cls = "FromCondition" -> "Condition"
      [] cls = "FromSteadyState" -> "SteadyState"
      [] cls = "FromOneInLimitCycle" -> "OneInLimitCycle"

\* pydot.Node(name) with the attributes the library sets.
Node(name, tooltip, shape, style, fillcolor) ==
    [name |-> name, tooltip |-> tooltip, shape |-> shape, style |-> style,
     fillcolor |-> fillcolor]

\* make_start_node of the five classes.
make_start_node(self) ==
    CASE self.cls = "FromAny" ->
            Node("any", ClassTooltip(self.cls), "circle", "dotted", "")
      [] self.cls = "FromSteadyState" ->
            Node(self.state, ClassTooltip(self.cls), "box", "filled", "")
      [] self.cls = "FromOneInLimitCycle" ->
            Node(self.state, ClassTooltip(self.cls), "", "dashed", "")
      [] OTHER ->
            Node(self.state, ClassTooltip(self.cls), "", "", "")

RECURSIVE perturbation_sequence(_)
\* _Strategy.perturbation_sequence
perturbation_sequence(self) ==
    LET ps == <<perturbation(self)>>
        s == next(self)
    IN  IF s # <<>> THEN ps \o perturbation_sequence(s[1]) ELSE ps

(***************************************************************************)
(* Graph projection                                                        *)
(***************************************************************************)

\* pydot.Dot("") after set_rankdir("LR").
Dot == [rankdir |-> "LR", nodes |-> <<>>, edges |-> <<>>]

\* pydot get_node(name): the list of the nodes of that name.
get_node(g, name) == SelectSeq(g.nodes, LAMBDA n : n.name = name)

\* pydot add_node
add_node(g, n) == [g EXCEPT !.nodes = Append(@, n)]

\* pydot add_edge: edges between the same end points accumulate.
add_edge(g, e) == [g EXCEPT !.edges = Append(@, e)]

\* The edge as it would be with the end points exchanged.
Edge_reversed(start, target, label, labeltooltip) ==
    [src |-> target.name, dst |-> start.name, label |-> label,
     fontsize |-> 10, labeltooltip |-> labeltooltip]

\* The edge built by fill_graph: pydot.Edge(start, target, label=...),
\* set_fontsize(10), set_labeltooltip(repr(p)).
Edge(start, target, label, labeltooltip) ==
    [src |-> start.name, dst |-> target.name, label |-> label,
     fontsize |-> 10, labeltooltip |-> labeltooltip]

\* add_start_node as it would be without the look-up of an existing node.
add_start_node_always(g, start) == add_node(g, start)

\* fill_graph, first step: the start node is added unless the graph
\* already has a node of that name.
add_start_node(g, start) ==
    IF get_node(g, start.name) = <<>> THEN add_node(g, start) ELSE g

RECURSIVE fill_graph(_, _, _, _)
\* _Strategy.fill_graph: returns the start node; the successor's chain is
\* filled first and its start node becomes the target of this hop's edge.
fill_graph(self, g, target, compact) ==
    LET start == make_start_node(self)
        g1 == add_start_node(g, start)
        p == perturbation(self)
        s == next(self)
        sub == IF s # <<>> THEN fill_graph(s[1], g1, target, compact)
               ELSE [status |-> "ok", g |-> g1, start |-> target]
        label == get_edge_label(p, compact)
        tip == repr(p)
    IN  IF sub.status # "ok"
        THEN [status |-> sub.status, g |-> sub.g, start |-> start]
        ELSE IF label.status # "ok"
        THEN [status |-> label.status, g |-> sub.g, start |-> start]
        ELSE IF tip.status # "ok"
        THEN [status |-> tip.status, g |-> sub.g, start |-> start]
        ELSE [status |-> "ok",
              g |-> add_edge(sub.g,
                             Edge(start, sub.start, label.value, tip.value)),
              start |-> start]

\* The sink node of as_graph.
TargetNode == Node("target", "", "Mdiamond", "filled", "palegreen")

RECURSIVE as_graph_loop(_, _, _, _)
\* as_graph: the loop over the held (strategy, props) pairs from index i.
as_graph_loop(dd, i, g, compact) ==
    IF i > Len(dd) THEN [status |-> "ok", g |-> g]
    ELSE LET r == fill_graph(dd[i][1], g, TargetNode, compact)
         IN  IF r.status # "ok" THEN [status |-> r.status, g |-> r.g]
             ELSE as_graph_loop(dd, i + 1, r.g, compact)

\* as_graph as it would be without adding the sink before the loop.
as_graph_no_sink(dd, compact) == as_graph_loop(dd, 1, Dot, compact)

\* ReprogrammingStrategies.as_graph
as_graph(dd, compact) ==
    as_graph_loop(dd, 1, add_node(Dot, TargetNode), compact)

(***************************************************************************)
(* Table projection                                                        *)
(***************************************************************************)

\* The condition as it would be if every integer were accepted.
IsBoolean_any(v) == v \in Int

\* The condition asserted on every value: v == 0 or v == 1.
IsBoolean(v) == v = 0 \/ v = 1

RECURSIVE mods_items(_, _, _)
\* as_table: the loop over the items of one perturbation, from index i.
mods_items(its, i, mods) ==
    IF i > Len(its) THEN [status |-> "ok", mods |-> mods]
    ELSE LET n == its[i][1]
             v == its[i][2]
         IN  IF ~IsBoolean(v)
             THEN [status |-> "AssertionError", mods |-> mods]
             ELSE mods_items(its, i + 1,
                     IF n \in DOMAIN mods
                     THEN [mods EXCEPT ![n] = @ \cup {v}]
                     ELSE mods @@ (n :> {v}))

RECURSIVE mods_perts(_, _, _)
\* as_table: the loop over the perturbation sequence of one strategy.
mods_perts(ps, i, mods) ==
    IF i > Len(ps) THEN [status |-> "ok", mods |-> mods]
    ELSE LET its == items(ps[i].args[1])
         IN  IF its.status # "ok"
             THEN [status |-> its.status, mods |-> mods]
             ELSE LET r == mods_items(its.value, 1, mods)
                  IN  IF r.status # "ok" THEN r
                      ELSE mods_perts(ps, i + 1, r.mods)

\* frozenset([(n, frozenset(vs)) for n, vs in mods.items()])
row_key(mods) == {<<n, mods[n]>> : n \in DOMAIN mods}

RECURSIVE table_keys(_, _, _)
\* as_table: the loop over the held strategies that fills the set l.
table_keys(dd, i, l) ==
    IF i > Len(dd) THEN [status |-> "ok", l |-> l]
    ELSE LET r == mods_perts(perturbation_sequence(dd[i][1]), 1, <<>>)
         IN  IF r.status # "ok" THEN [status |-> r.status, l |-> l]
             ELSE table_keys(dd, i + 1, l \cup {row_key(r.mods)})

\* fmt as it would be if it formatted the least value of every set.
fmt_first(vs) == ToString(CHOOSE v \in vs : \A w \in vs : v <= w)

\* as_table.fmt: the value of a singleton, '*' otherwise.
fmt(vs) ==
    IF Cardinality(vs) = 1 THEN ToString(CHOOSE v \in vs : TRUE) ELSE "*"

RECURSIVE SetToSeq(_)
\* The elements of a set in the order an iteration happens to give.
SetToSeq(S) ==
    IF S = {} THEN <<>>
    ELSE LET x == CHOOSE y \in S : TRUE IN <<x>> \o SetToSeq(S \ {x})

\* Order of the cell strings: '' < '*' < '0' < '1'.
CellRank(c) ==
    CASE c = "" -> 0
      [] c = "*" -> 1
      [] OTHER -> 2 + (CHOOSE v \in 0..9 : ToString(v) = c)

RECURSIVE RowLess(_, _, _)
\* sort_values over all columns: lexicographic order of two rows.
RowLess(r1, r2, i) ==
    IF i > Len(r1) THEN FALSE
    ELSE IF CellRank(r1[i]) # CellRank(r2[i])
         THEN CellRank(r1[i]) < CellRank(r2[i])
         ELSE RowLess(r1, r2, i + 1)

\* The cell of a row dict under a column; fillna('') where it is missing.
Cell(mods, c) ==
    IF \E nv \in mods : nv[1] = c
    THEN fmt((CHOOSE nv \in mods : nv[1] = c)[2])
    ELSE ""

\* pd.DataFrame(l).fillna(''), sort_index(axis=1), sort_values(columns),
\* reset_index: sorted column names, and the rows sorted over all columns.
DataFrame(l) ==
    LET names == {nv[1] : nv \in UNION Range(l)}
        columns == SortSeq(SetToSeq(names),
                           LAMBDA x, y : NameRank(x) < NameRank(y))
        rows == [i \in 1..Len(l) |->
                    [j \in 1..Len(columns) |-> Cell(l[i], columns[j])]]
    IN  [columns |-> columns,
         rows |-> SortSeq(rows, LAMBDA x, y : RowLess(x, y, 1))]

\* ReprogrammingStrategies.as_table
as_table(dd) ==
    LET r == table_keys(dd, 1, {})
    IN  IF r.status # "ok"
        THEN [status |-> r.status, columns |-> <<>>, rows |-> <<>>]
        ELSE IF r.l = {}
        THEN [status |-> "ok", columns |-> <<>>, rows |-> <<>>]
        ELSE LET df == DataFrame(SetToSeq(r.l))
             IN  [status |-> "ok", columns |-> df.columns, rows |-> df.rows]

(***************************************************************************)
(* Perturbation set                                                        *)
(***************************************************************************)

RECURSIVE TupleHash(_, _)
\* hash of a tuple of perturbations: hashes every element in turn.
TupleHash(t, i) ==
    IF i > Len(t) THEN "ok"
    ELSE IF PertHash(t[i]).status # "ok" THEN PertHash(t[i]).status
    ELSE TupleHash(t, i + 1)

\* Equality of two tuples of perturbations whose elements hash.
TupleEq(t1, t2) ==
    /\ Len(t1) = Len(t2)
    /\ \A i \in 1..Len(t1) : PertEq(t1[i], t2[i]).value

\* set.add: the element is kept unless an equal one is already held.
SetAdd(ps, t) == IF \E e \in ps : TupleEq(e, t) THEN ps ELSE ps \cup {t}

RECURSIVE perturbations_loop(_, _, _)
\* perturbations: the loop over the held strategies from index i.
perturbations_loop(dd, i, ps) ==
    IF i > Len(dd) THEN [status |-> "ok", ps |-> ps]
    ELSE LET t == perturbation_sequence(dd[i][1])
             h == TupleHash(t, 1)
         IN  IF h # "ok" THEN [status |-> h, ps |-> ps]
             ELSE perturbations_loop(dd, i + 1, SetAdd(ps, t))

\* ReprogrammingStrategies.perturbations
perturbations(dd) == perturbations_loop(dd, 1, {})

(***************************************************************************)
(* Alias registry                                                          *)
(***************************************************************************)

\* The alias_template class attributes: 's{}', 'c{}', 'a{}'.
Patterns == {"s{}", "c{}", "a{}"}

\* pattern.format(n)
format(pattern, n) ==
    CASE pattern = "s{}" -> "s" \o ToString(n)
      [] pattern = "c{}" -> "c" \o ToString(n)
      [] pattern = "a{}" -> "a" \o ToString(n)

\* ReprogrammingStrategies.register_alias: the last write wins.
register_alias(al, name, state) == (name :> state) @@ al

\* ReprogrammingStrategies.autoalias.  The registry of a pattern that has
\* none yet (or an empty one) is created through self.__known_alias, an
\* attribute no method ever sets.
autoalias(al, auto, pattern, state) ==
    LET h == sorted(items(state).value)
        has_reg == pattern \in DOMAIN auto /\ DOMAIN auto[pattern] # {}
    IN  IF ~has_reg
        THEN [status |-> "AttributeError", ret |-> "",
              aliases |-> al, autoaliases |-> auto]
        ELSE LET reg == auto[pattern]
                 a0 == IF h \in DOMAIN reg THEN reg[h] ELSE ""
                 a == format(pattern, Cardinality(DOMAIN reg))
             IN  IF a0 = ""
                 THEN [status |-> "ok", ret |-> a,
                       aliases |-> register_alias(al, a, state),
                       autoaliases |->
                           [auto EXCEPT ![pattern] = (h :> a) @@ reg]]
                 ELSE [status |-> "ok", ret |-> a0,
                       aliases |-> al, autoaliases |-> auto]

(***************************************************************************)
(* Inputs                                                                  *)
(***************************************************************************)

\* One hop as a caller writes it: class, state alias, perturbation.
Hop(cls, state, p) == [cls |-> cls, state |-> state, perturbation |-> p]

A1 == Dict(<< <<"a", 1>> >>)
A0 == Dict(<< <<"a", 0>> >>)
B0 == Dict(<< <<"b", 0>> >>)
B2 == Dict(<< <<"b", 2>> >>)
A1B0 == Dict(<< <<"a", 1>>, <<"b", 0>> >>)
B0A1 == Dict(<< <<"b", 0>>, <<"a", 1>> >>)

NoProps == Dict(<<>>)
SomeProps == Dict(<< <<"score", 1>> >>)

\* Start labels shared between heads and later hops.
PoolGraph ==
    [hops |-> {Hop("FromAny", NoState, _Perturbation("PermanentPerturbation", A1B0)),
               Hop("FromSteadyState", "s0", _Perturbation("TemporaryPerturbation", A0))},
     props |-> {NoProps}]

\* Boolean perturbations that overlap on a component.
PoolTable ==
    [hops |-> {Hop("FromAny", NoState, _Perturbation("PermanentPerturbation", A0)),
               Hop("FromCondition", "c0", _Perturbation("TemporaryPerturbation", B0A1))},
     props |-> {NoProps}]

\* A perturbation with a value outside {0, 1}.
PoolMultiValued ==
    [hops |-> {Hop("FromAny", NoState, _Perturbation("PermanentPerturbation", A1)),
               Hop("FromOneInLimitCycle", "a0", _Perturbation("InstantaneousPerturbation", B2))},
     props |-> {NoProps}]

\* Perturbations equal up to the insertion order of their items.
PoolPerturbations ==
    [hops |-> {Hop("FromAny", NoState, _Perturbation("PermanentPerturbation", A1B0)),
               Hop("FromState", "s0", _Perturbation("PermanentPerturbation", B0A1))},
     props |-> {NoProps}]

\* Perturbations different in their kind only.
PoolKinds ==
    [hops |-> {Hop("FromAny", NoState, _Perturbation("PermanentPerturbation", B0)),
               Hop("FromAny", NoState, _Perturbation("TemporaryPerturbation", B0))},
     props |-> {NoProps}]

\* Strategies different in their metadata only.
PoolProps ==
    [hops |-> {Hop("FromSteadyState", "a0", _Perturbation("InstantaneousPerturbation", A1))},
     props |-> {NoProps, SomeProps}]

\* The documented ReleasePerturbation over a set of component names.
PoolRelease ==
    [hops |-> {Hop("FromSteadyState", "s0", _Perturbation("TemporaryPerturbation", A0)),
               Hop("FromAny", NoState, _Perturbation("ReleasePerturbation", PySet({"a"})))},
     props |-> {NoProps}]

\* The pools whose partial states are all dicts, as _Perturbation.__init__
\* documents its parameter.
Pools ==
    {PoolGraph, PoolTable, PoolMultiValued, PoolPerturbations, PoolKinds,
     PoolProps}

AllPools == Pools \cup {PoolRelease}

\* The sequences over S of length at most n.
SeqsUpTo(S, n) == UNION {[1..k -> S] : k \in 0..n}

RECURSIVE Chains(_, _)
\* The strategies of chain length at most k that the constructors return
\* for the hops of a pool.
Chains(hops, k) ==
    IF k = 0 THEN {}
    ELSE LET results ==
                 {Strategy(h.cls, h.state, h.perturbation, seq) :
                      h \in hops, seq \in SeqsUpTo(Chains(hops, k - 1), MaxSeq)}
         IN  {r.value : r \in {x \in results : x.status = "ok"}}

\* The strategies a caller can hold, per pool.
Strategies == [p \in AllPools |-> Chains(p.hops, MaxChain)]

\* The successor lists a caller can pass to a constructor, per pool.
Successors == [p \in AllPools |-> SeqsUpTo(Chains(p.hops, 1), MaxSeq)]

\* n successors, each the one-hop strategy of h.
Repeat(h, n) ==
    [i \in 1..n |-> Strategy(h.cls, h.state, h.perturbation, <<>>).value]

AliasNames == {"s0"}

AliasStates == {A1}

\* The states a caller asks an automatic alias for.
AutoStates == {A1, A0}

(***************************************************************************)
(* State machine                                                           *)
(***************************************************************************)

Outcome(op, status) == [op |-> op, status |-> status]

\* ReprogrammingStrategies.__init__
Init ==
    /\ d = <<>>
    /\ aliases = <<>>
    /\ autoaliases = <<>>
    /\ last = Outcome("init", "ok")
    /\ pool \in Pools

InitRelease ==
    /\ d = <<>>
    /\ aliases = <<>>
    /\ autoaliases = <<>>
    /\ last = Outcome("init", "ok")
    /\ pool = PoolRelease

\* A constructor call FromAny(p, *seq) or FromState(state, p, *seq).
Construct(h, seq) ==
    /\ last' = Outcome("construct",
                       Strategy(h.cls, h.state, h.perturbation, seq).status)
    /\ UNCHANGED <<d, aliases, autoaliases, pool>>

\* add(s, **props)
Add(s, props) ==
    /\ Len(d) < MaxStrategies
    /\ d' = Append(d, <<s, props>>)
    /\ last' = Outcome("add", "ok")
    /\ UNCHANGED <<aliases, autoaliases, pool>>

\* register_alias(name, state)
RegisterAlias(name, state) ==
    /\ aliases' = register_alias(aliases, name, state)
    /\ last' = Outcome("register_alias", "ok")
    /\ UNCHANGED <<d, autoaliases, pool>>

\* autoalias(pattern, state)
Autoalias(pattern, state) ==
    LET r == autoalias(aliases, autoaliases, pattern, state)
    IN  /\ aliases' = r.aliases
        /\ autoaliases' = r.autoaliases
        /\ last' = Outcome("autoalias", r.status)
        /\ UNCHANGED <<d, pool>>

\* replace_key(k) on a held strategy of the FromState family
ReplaceKey(i, k) ==
    /\ d[i][1].cls \in StateClasses
    /\ LET r == replace_key(d[i][1], k)
       IN  /\ d' = [d EXCEPT ![i] = <<r.self, d[i][2]>>]
           /\ last' = Outcome("replace_key", r.status)
    /\ UNCHANGED <<aliases, autoaliases, pool>>

\* as_graph(compact)
AsGraph(compact) ==
    /\ last' = Outcome("as_graph", as_graph(d, compact).status)
    /\ UNCHANGED <<d, aliases, autoaliases, pool>>

\* as_table()
AsTable ==
    /\ last' = Outcome("as_table", as_table(d).status)
    /\ UNCHANGED <<d, aliases, autoaliases, pool>>

\* perturbations()
Perturbations ==
    /\ last' = Outcome("perturbations", perturbations(d).status)
    /\ UNCHANGED <<d, aliases, autoaliases, pool>>

Next ==
    \/ \E h \in pool.hops, n \in 0..MaxSeq : Construct(h, Repeat(h, n))
    \/ \E s \in Strategies[pool], props \in pool.props : Add(s, props)
    \/ \E name \in AliasNames, state \in AliasStates : RegisterAlias(name, state)
    \/ \E pattern \in Patterns, state \in AutoStates : Autoalias(pattern, state)
    \/ \E i \in 1..Len(d), k \in AliasNames : ReplaceKey(i, k)
    \/ \E compact \in BOOLEAN : AsGraph(compact)
    \/ AsTable
    \/ Perturbations

Spec == Init /\ [][Next]_vars

SpecRelease == InitRelease /\ [][Next]_vars

(***************************************************************************)
(* Vocabulary of the properties                                            *)
(***************************************************************************)

\* The strategies held by the collection, by position.
Held(i) == d[i][1]

RECURSIVE HopsOf(_)
\* The hops of a chain, head first.
HopsOf(s) == <<s>> \o (IF s.seq = <<>> THEN <<>> ELSE HopsOf(s.seq[1]))

\* The start label of one hop.
StartLabel(h) == IF h.cls = "FromAny" THEN "any" ELSE h.state

HeadLabels == {StartLabel(Held(i)) : i \in 1..Len(d)}

TailLabels ==
    UNION {{StartLabel(HopsOf(Held(i))[j]) : j \in 2..Len(HopsOf(Held(i)))} :
              i \in 1..Len(d)}

AllLabels == HeadLabels \cup TailLabels

DistinctHeads ==
    \A i, j \in 1..Len(d) :
        StartLabel(Held(i)) = StartLabel(Held(j)) => i = j

NodeNames(g) == {g.nodes[i].name : i \in 1..Len(g.nodes)}

SinkCount(g) == Cardinality({i \in 1..Len(g.nodes) : g.nodes[i].name = "target"})

StartCount(g) == Cardinality({i \in 1..Len(g.nodes) : g.nodes[i].name # "target"})

\* The (component, value) pairs of all the hops of a chain.
PairsOf(s) ==
    UNION {Range(HopsOf(s)[j].perturbation.args[1].items) :
              j \in 1..Len(HopsOf(s))}

AllPairs == UNION {PairsOf(Held(i)) : i \in 1..Len(d)}

AllBoolean == \A nv \in AllPairs : nv[2] \in {0, 1}

\* The values a chain assigns to a component anywhere.
ValuesOf(s, c) == {nv[2] : nv \in {x \in PairsOf(s) : x[1] = c}}

Symbol(vs) ==
    CASE vs = {} -> ""
      [] vs = {0} -> "0"
      [] vs = {1} -> "1"
      [] OTHER -> "*"

\* The row a chain stands for, under the given columns.
RowOf(s, columns) ==
    [j \in 1..Len(columns) |-> Symbol(ValuesOf(s, columns[j]))]

Permuted(f) == [i \in 1..Len(d) |-> d[f[i]]]

Orders ==
    {f \in [1..Len(d) -> 1..Len(d)] :
        \A i, j \in 1..Len(d) : f[i] = f[j] => i = j}

\* Structural equality of two perturbations: kind and set of pairs.
SamePerturbation(p1, p2) ==
    /\ p1.cls = p2.cls
    /\ Range(p1.args[1].items) = Range(p2.args[1].items)

SameSequence(t1, t2) ==
    /\ Len(t1) = Len(t2)
    /\ \A i \in 1..Len(t1) : SamePerturbation(t1[i], t2[i])

RECURSIVE AtMostOneSuccessor(_)
AtMostOneSuccessor(s) ==
    /\ Len(s.seq) <= 1
    /\ \A i \in 1..Len(s.seq) : AtMostOneSuccessor(s.seq[i])

(***************************************************************************)
(* Properties                                                              *)
(***************************************************************************)

\* C1: every autoalias call returns a name (the same name for an equal
\* state, the next ordinal of the pattern for a new one), from the very
\* first call on a fresh instance.
AutoaliasReturnsName ==
    last.op = "autoalias" =>
        /\ last.status = "ok"
        /\ \E pattern \in Patterns : pattern \in DOMAIN autoaliases

\* C2: the nodes of as_graph() are the sink plus one node per distinct
\* start label of any hop of any held chain; no name has two nodes; an
\* empty collection gives only the sink.
GraphNodesAreLabels ==
    last.op = "as_graph" => \A compact \in BOOLEAN :
        LET r == as_graph(d, compact)
        IN  /\ last.status = "ok"
            /\ r.status = "ok"
            /\ NodeNames(r.g) = {"target"} \cup AllLabels
            /\ Len(r.g.nodes) = Cardinality(NodeNames(r.g))
            /\ (d = <<>> => r.g.nodes = <<TargetNode>>)

GraphNodesShared ==
    /\ last = Outcome("as_graph", "ok")
    /\ Len(d) = 2
    /\ StartLabel(Held(1)) = StartLabel(Held(2))
    /\ Held(1) # Held(2)
    /\ TailLabels # {}

GraphEdgesAreHops ==
    last.op = "as_graph" => \A compact \in BOOLEAN :
        LET r == as_graph(d, compact)
            hopEdges ==
                {<<i, j>> \in (1..Len(d)) \X (1..MaxChain + 1) :
                    j <= Len(HopsOf(Held(i)))}
            src(ij) == StartLabel(HopsOf(Held(ij[1]))[ij[2]])
            dst(ij) ==
                IF ij[2] = Len(HopsOf(Held(ij[1]))) THEN "target"
                ELSE StartLabel(HopsOf(Held(ij[1]))[ij[2] + 1])
        IN  /\ r.status = "ok"
            /\ Len(r.g.edges) = Cardinality(hopEdges)
            /\ \A x, y \in NodeNames(r.g) :
                  Cardinality({k \in 1..Len(r.g.edges) :
                                  r.g.edges[k].src = x /\ r.g.edges[k].dst = y})
                  = Cardinality({ij \in hopEdges : src(ij) = x /\ dst(ij) = y})
            /\ \A i \in 1..Len(d) :
                  \E k \in 1..Len(r.g.edges) :
                      /\ r.g.edges[k].dst = "target"
                      /\ r.g.edges[k].src =
                             StartLabel(HopsOf(Held(i))[Len(HopsOf(Held(i)))])

GraphEdgesDuplicated ==
    /\ last = Outcome("as_graph", "ok")
    /\ Len(d) = 2
    /\ Held(1) = Held(2)
    /\ Len(HopsOf(Held(1))) = 2
    /\ StartLabel(Held(1)) # StartLabel(Held(1).seq[1])

\* C5: over Boolean values, as_table() has one row per distinct mapping
\* component -> set of values assigned anywhere in a chain, with cells
\* '0', '1', '*' and blank, sorted columns over all components, and the
\* same result for every insertion order.
TableRowsAreMappings ==
    last.op = "as_table" /\ AllBoolean =>
        LET t == as_table(d)
        IN  /\ t.status = "ok"
            /\ Range(t.columns) = {nv[1] : nv \in AllPairs}
            /\ \A i, j \in 1..Len(t.columns) :
                  i < j => NameRank(t.columns[i]) < NameRank(t.columns[j])
            /\ \A i \in 1..Len(d) :
                  \E k \in 1..Len(t.rows) : t.rows[k] = RowOf(Held(i), t.columns)
            /\ \A k \in 1..Len(t.rows) :
                  \E i \in 1..Len(d) : t.rows[k] = RowOf(Held(i), t.columns)
            /\ \A k, m \in 1..Len(t.rows) : t.rows[k] = t.rows[m] => k = m
            /\ \A f \in Orders : as_table(Permuted(f)) = t

TableAmbiguousRow ==
    /\ last = Outcome("as_table", "ok")
    /\ Len(d) = 2
    /\ Len(HopsOf(Held(1))) = 2
    /\ ValuesOf(Held(1), "a") = {0, 1}
    /\ ValuesOf(Held(1), "b") = {0}
    /\ ValuesOf(Held(2), "a") = {0}
    /\ ValuesOf(Held(2), "b") = {}
    /\ as_table(d).rows = << <<"*", "0">>, <<"0", "">> >>

\* C6: a value other than 0 and 1 at any hop makes as_table() fail as a
\* whole; the failure changes neither the collection nor the registries,
\* and as_graph() and perturbations() succeed after it.
TableRejectsMultiValued ==
    /\ [](last.op = "as_table" /\ ~AllBoolean =>
            /\ last.status = "AssertionError"
            /\ as_table(d).status = "AssertionError"
            /\ as_table(d).rows = <<>>
            /\ as_table(d).columns = <<>>
            /\ \A compact \in BOOLEAN : as_graph(d, compact).status = "ok"
            /\ perturbations(d).status = "ok")
    /\ [](last.op = "as_table" => (last.status = "ok" <=> AllBoolean))
    /\ [][last'.op = "as_table" /\ last'.status # "ok" =>
            /\ d' = d
            /\ aliases' = aliases
            /\ autoaliases' = autoaliases]_vars

TableRejected ==
    /\ last = Outcome("as_table", "AssertionError")
    /\ Len(d) = 2
    /\ \A nv \in PairsOf(Held(1)) : nv[2] \in {0, 1}
    /\ \A nv \in Range(Held(2).perturbation.args[1].items) : nv[2] \in {0, 1}
    /\ ~AllBoolean

\* C7: a constructor call with more than one successor is rejected, so
\* every held strategy, at every depth, has at most one successor and
\* next() is absent or the successor given at construction.
ChainsNeverBranch ==
    /\ \A h \in pool.hops, seq \in Successors[pool] :
          Len(seq) > 1 =>
              Strategy(h.cls, h.state, h.perturbation, seq).status
                  = "AssertionError"
    /\ \A s \in Strategies[pool] : AtMostOneSuccessor(s)
    /\ \A i \in 1..Len(d) :
          /\ AtMostOneSuccessor(Held(i))
          /\ next(Held(i)) = Held(i).seq

ConstructionRejected ==
    /\ last = Outcome("construct", "AssertionError")
    /\ Len(d) > 0
    /\ Len(HopsOf(Held(1))) = 2

\* C8: perturbations() is the set of the perturbation sequences of the
\* held strategies, each the hops' perturbations head to tail, where two
\* sequences are one element iff they have the same length and pairwise
\* the same kind and the same set of pairs.
PerturbationsAreSequences ==
    LET r == perturbations(d)
    IN  last.op = "perturbations" =>
        /\ last.status = "ok"
        /\ r.status = "ok"
        /\ \A i \in 1..Len(d) :
              /\ Len(perturbation_sequence(Held(i))) = Len(HopsOf(Held(i)))
              /\ \A j \in 1..Len(HopsOf(Held(i))) :
                    perturbation_sequence(Held(i))[j]
                        = HopsOf(Held(i))[j].perturbation
              /\ \E e \in r.ps : SameSequence(e, perturbation_sequence(Held(i)))
        /\ \A e \in r.ps :
              \E i \in 1..Len(d) : e = perturbation_sequence(Held(i))
        /\ \A e1, e2 \in r.ps : SameSequence(e1, e2) => e1 = e2
        /\ (d = <<>> => r.ps = {})

PerturbationsCollapsed ==
    /\ last = Outcome("perturbations", "ok")
    /\ Len(d) = 2
    /\ StartLabel(Held(1)) # StartLabel(Held(2))
    /\ Held(1).perturbation # Held(2).perturbation
    /\ SamePerturbation(Held(1).perturbation, Held(2).perturbation)
    /\ Len(HopsOf(Held(1))) = 2
    /\ Cardinality(perturbations(d).ps) = 1

\* C9: replace_key(k) on a strategy of the FromState family succeeds and
\* key() returns k afterwards, perturbation() and next() unchanged.
ReplaceKeySucceeds ==
    last.op = "replace_key" =>
        /\ last.status = "ok"
        /\ \E i \in 1..Len(d) :
              Held(i).cls \in StateClasses /\ key(Held(i)) \in AliasNames

\* The 2-hop chain of the documented release example.
ReleaseChain ==
    Strategy("FromSteadyState", "s0",
             _Perturbation("TemporaryPerturbation", A0),
             <<Strategy("FromAny", NoState,
                        _Perturbation("ReleasePerturbation", PySet({"a"})),
                        <<>>).value>>).value

\* C10: a collection holding the 2-hop chain that ends in a release over a
\* set of names is usable: sequence of length 2, one element in
\* perturbations(), and a graph of 3 nodes and 2 edges, compact or not.
ReleaseChainUsable ==
    d = << <<ReleaseChain, NoProps>> >> =>
        /\ Len(perturbation_sequence(Held(1))) = 2
        /\ perturbations(d).status = "ok"
        /\ Cardinality(perturbations(d).ps) = 1
        /\ \A compact \in BOOLEAN :
              LET r == as_graph(d, compact)
              IN  /\ r.status = "ok"
                  /\ NodeNames(r.g) = {"s0", "any", "target"}
                  /\ Len(r.g.nodes) = 3
                  /\ Len(r.g.edges) = 2

====
